---- MODULE Spec2Model ----
(***************************************************************************)
(* postgres-from-row: binding of query rows to typed records.              *)
(*                                                                         *)
(* A type that implements FromRow is a descriptor:                         *)
(*   unit        ()                                                        *)
(*   tuple       (T0, .., Tn)   of FromSql scalars                         *)
(*   option      Option<T>                                                 *)
(*   vec         Vec<T>                                                    *)
(*   struct      a #[derive(FromRow)] struct, a sequence of fields         *)
(* Values: a scalar is an integer (a nullable scalar <<>> or <<v>>), an    *)
(* Option is <<>> or <<v>>, a Vec, a tuple and a struct are sequences.     *)
(* Option<&mut Self> is <<>> or <<v>>; every binder returns the referent   *)
(* as it is after the call in the field "last".                            *)
(***************************************************************************)
EXTENDS Integers, Sequences, FiniteSets, TLC

\* ------------------------------------------------------------- bounds
MaxRows == 3
MaxVal == 2
MaxCols == 3
MaxFields == 2
MaxCalls == 2

\* ------------------------------------------------------ type descriptors
Int4 == [base |-> "int4", nullable |-> FALSE]
OptInt4 == [base |-> "int4", nullable |-> TRUE]
Text == [base |-> "text", nullable |-> FALSE]

UnitT == [kind |-> "unit"]
TupleT(elems) == [kind |-> "tuple", elems |-> elems]
OptionT(T) == [kind |-> "option", of |-> T]
VecT(T) == [kind |-> "vec", of |-> T]
StructT(fields) == [kind |-> "struct", fields |-> fields]

\* A field of a derived struct with its #[from_row(..)] attributes; "conv" is
\* the set of from / from_fn / try_from / try_from_fn attributes present and
\* "rename" is <<>> or <<name>>.
FromRowField(ident, flatten, join, rename, conv, ty) ==
    [ident |-> ident, flatten |-> flatten, join |-> join, rename |-> rename,
     conv |-> conv, ty |-> ty]

Scalar(ident, sty) == FromRowField(ident, FALSE, FALSE, <<>>, {}, sty)
Flatten(ident, T) == FromRowField(ident, TRUE, FALSE, <<>>, {}, T)
Join(ident, T) == FromRowField(ident, FALSE, TRUE, <<>>, {}, T)

\* ------------------------------------------------- derive: validation
\* FromRowField::validate: TRUE when the attribute combination is accepted.
field_validate(f) ==
    /\ Cardinality(f.conv) <= 1
    /\ ~(f.flatten /\ f.conv # {})
    /\ ~(f.join /\ f.conv # {})
    /\ ~(f.rename # <<>> /\ f.flatten)
    /\ ~(f.rename # <<>> /\ f.join)
    /\ ~(f.flatten /\ f.join)

\* a validate that looks at all fields but the first, not all but the last
validate_but_first(fields) ==
    /\ \A j \in 1..Len(fields) : field_validate(fields[j])
    /\ \A j \in 2..Len(fields) : ~fields[j].join

\* DeriveFromRow::validate: every field valid, and no field but the last
\* carries #[from_row(join)].
validate(fields) ==
    /\ \A j \in 1..Len(fields) : field_validate(fields[j])
    /\ \A j \in 1..(Len(fields) - 1) : ~fields[j].join

\* FromRowField::column_name
column_name(f) == IF f.rename # <<>> THEN f.rename[1] ELSE f.ident

\* ------------------------------------------------------- COLUMN_COUNT
RECURSIVE COLUMN_COUNT(_)
RECURSIVE column_count_terms(_, _)

\* a count that takes every field for one column
generate_column_count_one(f) == 1

\* FromRowField::generate_column_count
generate_column_count(f) ==
    IF f.flatten \/ f.join THEN COLUMN_COUNT(f.ty) ELSE 1

\* 0 #(+ #generate_column_count_terms)* over the fields j..Len(fields)
column_count_terms(fields, j) ==
    IF j > Len(fields) THEN 0
    ELSE generate_column_count(fields[j]) + column_count_terms(fields, j + 1)

derive_COLUMN_COUNT(ty) == column_count_terms(ty.fields, 1)

tuple_COLUMN_COUNT(ty) == Len(ty.elems)

unit_COLUMN_COUNT(ty) == 0

Option_COLUMN_COUNT(ty) == COLUMN_COUNT(ty.of)

Vec_COLUMN_COUNT(ty) == COLUMN_COUNT(ty.of)

COLUMN_COUNT(ty) ==
    CASE ty.kind = "unit" -> unit_COLUMN_COUNT(ty)
      [] ty.kind = "tuple" -> tuple_COLUMN_COUNT(ty)
      [] ty.kind = "option" -> Option_COLUMN_COUNT(ty)
      [] ty.kind = "vec" -> Vec_COLUMN_COUNT(ty)
      [] ty.kind = "struct" -> derive_COLUMN_COUNT(ty)

\* --------------------------------------------- schema: expected columns
\* FromSql::accepts of a scalar target type on a column's wire type.
accepts(sty, wire) == sty.base = wire

\* ExpectedColumn::new::<T>(column_name); column_name is <<>> or <<name>>.
ExpectedColumn_new(sty, name) ==
    [column_name |-> name, sty |-> sty, nullable |-> sty.nullable]

set_nullable(e) == [e EXCEPT !.nullable = TRUE]

RECURSIVE report_expected_columns(_)
RECURSIVE report_fields(_, _)
RECURSIVE tuple_expected(_, _)

tuple_expected(elems, j) ==
    IF j > Len(elems) THEN <<>>
    ELSE <<ExpectedColumn_new(elems[j], <<>>)>> \o tuple_expected(elems, j + 1)

\* generate_report_expected_columns_to_vec / _to_const_slice, field by field
report_fields(fields, j) ==
    IF j > Len(fields) THEN <<>>
    ELSE LET f == fields[j] IN
         (IF f.flatten \/ f.join
          THEN report_expected_columns(f.ty)
          ELSE <<ExpectedColumn_new(f.ty, <<column_name(f)>>)>>)
         \o report_fields(fields, j + 1)

wrapper_report_expected_columns(ty) ==
    LET cols == report_expected_columns(ty.of) IN
    [j \in 1..Len(cols) |-> set_nullable(cols[j])]

report_expected_columns(ty) ==
    CASE ty.kind = "unit" -> <<>>
      [] ty.kind = "tuple" -> tuple_expected(ty.elems, 1)
      [] ty.kind = "option" -> wrapper_report_expected_columns(ty)
      [] ty.kind = "vec" -> wrapper_report_expected_columns(ty)
      [] ty.kind = "struct" -> report_fields(ty.fields, 1)

\* ------------------------------------------- schema: try_assert_matches
\* TRUE is Ok(()), FALSE is Err(()).  A column is [name, type].
RECURSIVE try_assert_matches(_, _)
RECURSIVE assert_fields(_, _, _)

Skip(s, n) == SubSeq(s, n + 1, Len(s))

\* field checks that compare the wire type and forget the name
RECURSIVE assert_fields_unnamed(_, _, _)
assert_fields_unnamed(fields, j, columns) ==
    IF j > Len(fields) THEN TRUE
    ELSE LET f == fields[j] IN
         IF f.flatten \/ f.join
         THEN LET n == COLUMN_COUNT(f.ty) IN
              /\ try_assert_matches(f.ty, SubSeq(columns, 1, n))
              /\ assert_fields_unnamed(fields, j + 1, Skip(columns, n))
         ELSE /\ accepts(f.ty, columns[1].type)
              /\ assert_fields_unnamed(fields, j + 1, Skip(columns, 1))

\* generate_try_assert_matches, field by field, on the remaining __columns
assert_fields(fields, j, columns) ==
    IF j > Len(fields) THEN TRUE
    ELSE LET f == fields[j] IN
         IF f.flatten \/ f.join
         THEN LET n == COLUMN_COUNT(f.ty) IN
              /\ try_assert_matches(f.ty, SubSeq(columns, 1, n))
              /\ assert_fields(fields, j + 1, Skip(columns, n))
         ELSE /\ ~(columns[1].name # column_name(f)
                   \/ ~accepts(f.ty, columns[1].type))
              /\ assert_fields(fields, j + 1, Skip(columns, 1))

derive_try_assert_matches(ty, columns) ==
    IF Len(columns) # COLUMN_COUNT(ty) THEN FALSE
    ELSE assert_fields(ty.fields, 1, columns)

\* a tuple that matches its elements against the first columns it finds
tuple_matches_prefix(ty, columns) ==
    /\ Len(columns) >= Len(ty.elems)
    /\ \A j \in 1..Len(ty.elems) : accepts(ty.elems[j], columns[j].type)

tuple_try_assert_matches(ty, columns) ==
    /\ Len(columns) = Len(ty.elems)
    /\ \A j \in 1..Len(ty.elems) : accepts(ty.elems[j], columns[j].type)

unit_try_assert_matches(ty, columns) == TRUE

Option_try_assert_matches(ty, columns) == try_assert_matches(ty.of, columns)

Vec_try_assert_matches(ty, columns) == try_assert_matches(ty.of, columns)

try_assert_matches(ty, columns) ==
    CASE ty.kind = "unit" -> unit_try_assert_matches(ty, columns)
      [] ty.kind = "tuple" -> tuple_try_assert_matches(ty, columns)
      [] ty.kind = "option" -> Option_try_assert_matches(ty, columns)
      [] ty.kind = "vec" -> Vec_try_assert_matches(ty, columns)
      [] ty.kind = "struct" -> derive_try_assert_matches(ty, columns)

\* FromRow::assert_matches: TRUE when it returns, FALSE when it panics with
\* the mismatch report.  Vec<T> overrides it with T::assert_matches.
RECURSIVE assert_matches(_, _)
assert_matches(ty, columns) ==
    IF ty.kind = "vec" THEN assert_matches(ty.of, columns)
    ELSE try_assert_matches(ty, columns)

\* ------------------------------------------------------------ rows
\* A cell holds a value, SQL NULL, or bytes its target type cannot decode.
Val(v) == [tag |-> "val", v |-> v]
Null == [tag |-> "null", v |-> 0]
Bad == [tag |-> "bad", v |-> 0]

\* Outcome of a bind: Ok(Some(val)), Ok(None), Err(err) or a panic; "last"
\* is the referent of the `last` argument after the call (<<>> for None).
OkSome(val, last) == [tag |-> "Some", val |-> val, err |-> "", last |-> last]
OkNone(last) == [tag |-> "None", val |-> <<>>, err |-> "", last |-> last]
Err(e, last) == [tag |-> "Err", val |-> <<>>, err |-> e, last |-> last]
Panic(msg, last) == [tag |-> "Panic", val |-> <<>>, err |-> msg, last |-> last]

NeverNone == "when try_from_row_joined is called with last = None it should never return None"

\* is_was_null on the error of an Err outcome
is_was_null(e) == e = "WasNull"

\* tokio_postgres::Row::try_get::<_, T>(row, idx), idx counted from 0: a
\* missing column, a wire type T does not accept and undecodable bytes are
\* errors other than WasNull; NULL is WasNull unless T is an Option.
try_get(row, idx, sty) ==
    IF idx >= Len(row.cells) THEN Err("Other", <<>>)
    ELSE LET cell == row.cells[idx + 1] IN
         IF ~accepts(sty, row.columns[idx + 1].type) THEN Err("Other", <<>>)
         ELSE IF cell.tag = "bad" THEN Err("Other", <<>>)
         ELSE IF cell.tag = "null"
              THEN (IF sty.nullable THEN OkSome(<<>>, <<>>)
                    ELSE Err("WasNull", <<>>))
         ELSE OkSome(IF sty.nullable THEN <<cell.v>> ELSE cell.v, <<>>)

\* ------------------------------------------------- try_from_row_joined
RECURSIVE try_from_row_joined(_, _, _, _)
RECURSIVE tuple_bind(_, _, _, _, _)
RECURSIVE bind_fields(_, _, _, _, _, _)

unit_try_from_row_joined(ty, last, row, index) == OkSome(<<>>, last)

\* a tuple whose elements are all read at the cursor it was given
RECURSIVE tuple_bind_cursor_unmoved(_, _, _, _, _)
tuple_bind_cursor_unmoved(elems, row, i, j, acc) ==
    IF j > Len(elems) THEN OkSome(acc, <<>>)
    ELSE LET r == try_get(row, i, elems[j]) IN
         IF r.tag = "Err" THEN r
         ELSE tuple_bind_cursor_unmoved(elems, row, i, j + 1, Append(acc, r.val))

\* the tuple expression ($(row.try_get::<_, $T>({let j = i; i += 1; j})?,)*)
tuple_bind(elems, row, i, j, acc) ==
    IF j > Len(elems) THEN OkSome(acc, <<>>)
    ELSE LET r == try_get(row, i, elems[j]) IN
         IF r.tag = "Err" THEN r
         ELSE tuple_bind(elems, row, i + 1, j + 1, Append(acc, r.val))

tuple_try_from_row_joined(ty, last, row, index) ==
    [tuple_bind(ty.elems, row, index, 1, <<>>) EXCEPT !.last = last]

\* an Option that takes every error for a NULL
Option_absorbs_every_error(ty, last, row, index) ==
    LET inner == IF last # <<>> /\ last[1] # <<>> THEN <<last[1][1]>> ELSE <<>>
        r == try_from_row_joined(ty.of, inner, row, index)
        after == IF inner # <<>> THEN <<r.last>> ELSE last
    IN  CASE r.tag = "None" -> OkNone(after)
          [] r.tag = "Some" -> OkSome(<<r.val>>, after)
          [] r.tag = "Err" -> OkSome(<<>>, after)
          [] r.tag = "Panic" -> Panic(r.err, after)

Option_try_from_row_joined(ty, last, row, index) ==
    LET inner == IF last # <<>> /\ last[1] # <<>> THEN <<last[1][1]>> ELSE <<>>
        r == try_from_row_joined(ty.of, inner, row, index)
        after == IF inner # <<>> THEN <<r.last>> ELSE last
    IN  CASE r.tag = "None" -> OkNone(after)
          [] r.tag = "Some" -> OkSome(<<r.val>>, after)
          [] r.tag = "Err" /\ is_was_null(r.err) -> OkSome(<<>>, after)
          [] r.tag = "Err" /\ ~is_was_null(r.err) -> Err(r.err, after)
          [] r.tag = "Panic" -> Panic(r.err, after)

\* a Vec for which a NULL first row yields nothing instead of an empty Vec
Vec_null_first_row_yields_none(ty, last, row, index) ==
    LET vec == IF last = <<>> THEN <<>> ELSE last[1]
        n == Len(vec)
        r == try_from_row_joined(ty.of,
                 IF n = 0 THEN <<>> ELSE <<vec[n]>>, row, index)
        vec1 == IF n = 0 THEN vec ELSE [vec EXCEPT ![n] = r.last[1]]
        after == IF last = <<>> THEN last ELSE <<vec1>>
    IN  CASE r.tag = "Some" /\ last = <<>> -> OkSome(<<r.val>>, last)
          [] r.tag = "Some" /\ last # <<>> -> OkNone(<<Append(vec1, r.val)>>)
          [] r.tag = "None" -> OkNone(after)
          [] r.tag = "Err" /\ is_was_null(r.err) -> OkNone(after)
          [] r.tag = "Err" /\ ~is_was_null(r.err) -> Err(r.err, after)
          [] r.tag = "Panic" -> Panic(r.err, after)

\* a Vec whose first-row path returns T's was-null error
Vec_first_row_null_is_error(ty, last, row, index) ==
    IF last = <<>>
    THEN LET r == try_from_row_joined(ty.of, <<>>, row, index) IN
         CASE r.tag = "Some" -> OkSome(<<r.val>>, last)
           [] r.tag = "None" -> Panic(NeverNone, last)
           [] r.tag = "Err" -> Err(r.err, last)
           [] r.tag = "Panic" -> Panic(r.err, last)
    ELSE Vec_null_first_row_yields_none(ty, last, row, index)

\* a Vec that hands a new item back to its caller instead of pushing it
Vec_returns_pushed_item(ty, last, row, index) ==
    LET r == Vec_null_first_row_yields_none(ty, last, row, index) IN
    IF last = <<>>
    THEN (IF r.tag = "None" THEN OkSome(<<>>, last) ELSE r)
    ELSE (IF r.tag = "None" /\ Len(r.last[1]) > Len(last[1])
          THEN OkSome(<<r.last[1][Len(r.last[1])]>>,
                      <<SubSeq(r.last[1], 1, Len(last[1]))>>)
          ELSE r)

\* a Vec that inserts a new item before the items it holds
Vec_pushes_at_front(ty, last, row, index) ==
    LET r == Vec_null_first_row_yields_none(ty, last, row, index) IN
    IF last = <<>>
    THEN (IF r.tag = "None" THEN OkSome(<<>>, last) ELSE r)
    ELSE (IF r.tag = "None" /\ Len(r.last[1]) > Len(last[1])
          THEN OkNone(<< <<r.last[1][Len(r.last[1])]>>
                         \o SubSeq(r.last[1], 1, Len(last[1])) >>)
          ELSE r)

Vec_try_from_row_joined(ty, last, row, index) ==
    IF last = <<>>
    THEN LET r == try_from_row_joined(ty.of, <<>>, row, index) IN
         CASE r.tag = "Some" -> OkSome(<<r.val>>, last)
           [] r.tag = "None" -> Panic(NeverNone, last)
           [] r.tag = "Err" /\ is_was_null(r.err) -> OkSome(<<>>, last)
           [] r.tag = "Err" /\ ~is_was_null(r.err) -> Err(r.err, last)
           [] r.tag = "Panic" -> Panic(r.err, last)
    ELSE LET vec == last[1]
             n == Len(vec)
             r == try_from_row_joined(ty.of,
                      IF n = 0 THEN <<>> ELSE <<vec[n]>>, row, index)
             vec1 == IF n = 0 THEN vec ELSE [vec EXCEPT ![n] = r.last[1]]
         IN  CASE r.tag = "Some" -> OkNone(<<Append(vec1, r.val)>>)
               [] r.tag = "None" -> OkNone(<<vec1>>)
               [] r.tag = "Err" /\ is_was_null(r.err) -> OkNone(<<vec1>>)
               [] r.tag = "Err" /\ ~is_was_null(r.err) -> Err(r.err, <<vec1>>)
               [] r.tag = "Panic" -> Panic(r.err, <<vec1>>)

\* a join field that merges whatever the key fields hold
comparisons_dropped(fields, last, acc) == TRUE

\* the `__last.#ident == #ident` comparisons of a join field: every field
\* that is not join, against the values bound so far on this row
comparisons(fields, last, acc) ==
    \A n \in 1..Len(fields) : fields[n].join \/ last[1][n] = acc[n]

\* flatten fields bound against the same field of the previous record
bind_fields_flatten_with_last(fields, last, row, i, j, acc) ==
    IF j > Len(fields) THEN OkSome(acc, last)
    ELSE LET f == fields[j] IN
      IF f.flatten \/ f.join
      THEN IF last # <<>> /\ (f.flatten \/ comparisons(fields, last, acc))
           THEN LET r == try_from_row_joined(f.ty, <<last[1][j]>>, row, i)
                    after == <<[last[1] EXCEPT ![j] = r.last[1]]>>
                IN  CASE r.tag = "Err" -> Err(r.err, after)
                      [] r.tag = "Panic" -> Panic(r.err, after)
                      [] r.tag = "None" -> OkNone(after)
                      [] r.tag = "Some" ->
                           bind_fields(fields, after, row,
                                       i + COLUMN_COUNT(f.ty), j + 1,
                                       Append(acc, r.val))
           ELSE LET r == try_from_row_joined(f.ty, <<>>, row, i) IN
                CASE r.tag = "Err" -> Err(r.err, last)
                  [] r.tag = "Panic" -> Panic(r.err, last)
                  [] r.tag = "None" -> Panic(NeverNone, last)
                  [] r.tag = "Some" ->
                       bind_fields(fields, last, row, i + COLUMN_COUNT(f.ty),
                                   j + 1, Append(acc, r.val))
      ELSE LET r == try_get(row, i, f.ty) IN
           IF r.tag = "Err" THEN Err(r.err, last)
           ELSE bind_fields(fields, last, row, i + 1, j + 1, Append(acc, r.val))

\* a join field that starts afresh when the nested call took the row in
bind_fields_none_starts_afresh(fields, last, row, i, j, acc) ==
    IF j > Len(fields) THEN OkSome(acc, last)
    ELSE LET f == fields[j] IN
      IF f.flatten \/ f.join
      THEN LET merged == IF f.join /\ last # <<>> /\ comparisons(fields, last, acc)
                         THEN try_from_row_joined(f.ty, <<last[1][j]>>, row, i)
                         ELSE OkNone(<<>>)
               after == IF merged.last = <<>> THEN last
                        ELSE <<[last[1] EXCEPT ![j] = merged.last[1]]>>
               r == IF merged.tag = "None"
                    THEN try_from_row_joined(f.ty, <<>>, row, i)
                    ELSE merged
           IN  CASE r.tag = "Err" -> Err(r.err, after)
                 [] r.tag = "Panic" -> Panic(r.err, after)
                 [] r.tag = "None" -> Panic(NeverNone, after)
                 [] r.tag = "Some" ->
                      bind_fields(fields, after, row, i + COLUMN_COUNT(f.ty),
                                  j + 1, Append(acc, r.val))
      ELSE LET r == try_get(row, i, f.ty) IN
           IF r.tag = "Err" THEN Err(r.err, last)
           ELSE bind_fields(fields, last, row, i + 1, j + 1, Append(acc, r.val))

\* generate_try_from_row for field j, then the fields after it; acc holds
\* the values of the fields bound so far and i is the cursor __i.
bind_fields(fields, last, row, i, j, acc) ==
    IF j > Len(fields) THEN OkSome(acc, last)
    ELSE LET f == fields[j] IN
      IF f.flatten
      THEN LET r == try_from_row_joined(f.ty, <<>>, row, i) IN
           CASE r.tag = "Err" -> Err(r.err, last)
             [] r.tag = "Panic" -> Panic(r.err, last)
             [] r.tag = "None" -> Panic(NeverNone, last)
             [] r.tag = "Some" ->
                  bind_fields(fields, last, row, i + COLUMN_COUNT(f.ty),
                              j + 1, Append(acc, r.val))
      ELSE IF f.join
      THEN IF last # <<>> /\ comparisons(fields, last, acc)
           THEN LET r == try_from_row_joined(f.ty, <<last[1][j]>>, row, i)
                    after == <<[last[1] EXCEPT ![j] = r.last[1]]>>
                IN  CASE r.tag = "Err" -> Err(r.err, after)
                      [] r.tag = "Panic" -> Panic(r.err, after)
                      [] r.tag = "None" -> OkNone(after)
                      [] r.tag = "Some" ->
                           bind_fields(fields, after, row,
                                       i + COLUMN_COUNT(f.ty), j + 1,
                                       Append(acc, r.val))
           ELSE LET r == try_from_row_joined(f.ty, <<>>, row, i) IN
                CASE r.tag = "Err" -> Err(r.err, last)
                  [] r.tag = "Panic" -> Panic(r.err, last)
                  [] r.tag = "None" -> Panic(NeverNone, last)
                  [] r.tag = "Some" ->
                       bind_fields(fields, last, row, i + COLUMN_COUNT(f.ty),
                                   j + 1, Append(acc, r.val))
      ELSE LET r == try_get(row, i, f.ty) IN
           IF r.tag = "Err" THEN Err(r.err, last)
           ELSE bind_fields(fields, last, row, i + 1, j + 1, Append(acc, r.val))

derive_try_from_row_joined(ty, last, row, index) ==
    bind_fields(ty.fields, last, row, index, 1, <<>>)

try_from_row_joined(ty, last, row, index) ==
    CASE ty.kind = "unit" -> unit_try_from_row_joined(ty, last, row, index)
      [] ty.kind = "tuple" -> tuple_try_from_row_joined(ty, last, row, index)
      [] ty.kind = "option" -> Option_try_from_row_joined(ty, last, row, index)
      [] ty.kind = "vec" -> Vec_try_from_row_joined(ty, last, row, index)
      [] ty.kind = "struct" -> derive_try_from_row_joined(ty, last, row, index)

\* --------------------------------------------- the try_get calls made
\* The calls row.try_get::<_, T>(idx) a bind makes, in the order it makes
\* them: each is the pair of the cursor value `{let j = i; i += 1; j}` and
\* the target type.  A `?` that returns early ends the sequence.
RECURSIVE try_get_calls(_, _, _, _)
RECURSIVE tuple_try_get_calls(_, _, _, _)
RECURSIVE fields_try_get_calls(_, _, _, _, _, _)

TryGet(idx, sty) == [idx |-> idx, sty |-> sty]

tuple_try_get_calls(elems, row, i, j) ==
    IF j > Len(elems) THEN <<>>
    ELSE <<TryGet(i, elems[j])>>
         \o (IF try_get(row, i, elems[j]).tag = "Err" THEN <<>>
             ELSE tuple_try_get_calls(elems, row, i + 1, j + 1))

Option_try_get_calls(ty, last, row, index) ==
    try_get_calls(ty.of,
                  IF last # <<>> /\ last[1] # <<>> THEN <<last[1][1]>> ELSE <<>>,
                  row, index)

Vec_try_get_calls(ty, last, row, index) ==
    try_get_calls(ty.of,
                  IF last = <<>> \/ Len(last[1]) = 0 THEN <<>>
                  ELSE <<last[1][Len(last[1])]>>,
                  row, index)

\* the calls of field j and of the fields after it
fields_try_get_calls(fields, last, row, i, j, acc) ==
    IF j > Len(fields) THEN <<>>
    ELSE LET f == fields[j] IN
      IF f.flatten \/ f.join
      THEN LET inner == IF f.join /\ last # <<>> /\ comparisons(fields, last, acc)
                        THEN <<last[1][j]>> ELSE <<>>
               r == try_from_row_joined(f.ty, inner, row, i)
           IN  try_get_calls(f.ty, inner, row, i)
               \o (IF r.tag = "Some"
                   THEN fields_try_get_calls(fields, last, row,
                                             i + COLUMN_COUNT(f.ty), j + 1,
                                             Append(acc, r.val))
                   ELSE <<>>)
      ELSE LET r == try_get(row, i, f.ty) IN
           <<TryGet(i, f.ty)>>
           \o (IF r.tag = "Err" THEN <<>>
               ELSE fields_try_get_calls(fields, last, row, i + 1, j + 1,
                                         Append(acc, r.val)))

try_get_calls(ty, last, row, index) ==
    CASE ty.kind = "unit" -> <<>>
      [] ty.kind = "tuple" -> tuple_try_get_calls(ty.elems, row, index, 1)
      [] ty.kind = "option" -> Option_try_get_calls(ty, last, row, index)
      [] ty.kind = "vec" -> Vec_try_get_calls(ty, last, row, index)
      [] ty.kind = "struct" ->
           fields_try_get_calls(ty.fields, last, row, index, 1, <<>>)

\* ------------------------------------------------------------ inputs
Child == StructT(<<Scalar("c", Int4)>>)
One == TupleT(<<Int4>>)
Pair == TupleT(<<Int4, Int4>>)
Parent == StructT(<<Scalar("k", Int4), Join("children", VecT(Child))>>)
ParentT == StructT(<<Scalar("k", Int4), Join("children", VecT(One))>>)
ParentOpt == StructT(<<Scalar("k", Int4), Join("child", OptionT(Child))>>)
Loose == StructT(<<Scalar("a", OptInt4), Flatten("rest", One)>>)

\* The types rows are bound to.
BindTypes ==
    {UnitT, One, Pair, Child, Parent, ParentT, ParentOpt, Loose,
     OptionT(Child), OptionT(Pair), VecT(Child), OptionT(UnitT)}

Column(name, type) == [name |-> name, type |-> type]

\* The columns a query written for ty returns: the expected names (any name
\* where none is expected) and the wire type of each target.
GoodColumns(T) ==
    LET e == report_expected_columns(T) IN
    [j \in 1..Len(e) |->
        Column(IF e[j].column_name = <<>> THEN "x" ELSE e[j].column_name[1],
               e[j].sty.base)]

\* The good columns and the ways a query can miss them: a column short, a
\* column too many, a wrong wire type, a wrong name.
ColumnChoices(T) ==
    LET g == GoodColumns(T) IN
    {g, Append(g, Column("x", "int4"))}
    \cup (IF Len(g) = 0 THEN {}
          ELSE {SubSeq(g, 1, Len(g) - 1),
                [g EXCEPT ![1].type = "text"],
                [g EXCEPT ![1].name = "zz"]})

Cells == {Null, Bad} \cup {Val(v) : v \in 1..MaxVal}

Rows(cols) == {[columns |-> cols, cells |-> c] : c \in [1..Len(cols) -> Cells]}

\* ------------------------------------------------------------- state
VARIABLES
    ty,        \* Self, the type the entry point is called on
    columns,   \* the columns of the rows of the batch
    entry,     \* the entry point called
    pc,        \* "idle", "loop" (inside the for loop), "done"
    rows,      \* the slice of rows passed, as far as the loop can see it
    taken,     \* how many rows the loop has gone through
    vec,       \* the output vector under construction
    outcome,   \* how the call ended
    asserted,  \* how many times assert_matches ran
    call,      \* the latest direct call of try_from_row_joined
    check,     \* what the schema functions answered for ty and columns
    derive     \* a derive input and what the macro made of it

vars == <<ty, columns, entry, pc, rows, taken, vec, outcome, asserted,
          call, check, derive>>

\* what the entry points leave alone
others == <<call, check, derive>>

NoCall == [made |-> FALSE]
NoCheck == [count |-> <<>>, expected |-> <<>>, verdict |-> <<>>]
NoDerive == [fields |-> <<>>, result |-> "none"]

Running == [tag |-> "none", err |-> ""]
Returned == [tag |-> "Ok", err |-> ""]
Failed(e) == [tag |-> "Err", err |-> e]
Panicked(msg) == [tag |-> "Panic", err |-> msg]

Mismatch == "columns mismatch report"
CouldNotConvert == "could not convert column"

Init ==
    /\ ty \in BindTypes
    /\ columns \in ColumnChoices(ty)
    /\ entry = "none"
    /\ pc = "idle"
    /\ rows = <<>>
    /\ taken = 0
    /\ vec = <<>>
    /\ outcome = Running
    /\ asserted = 0
    /\ call = NoCall
    /\ check = NoCheck
    /\ derive = NoDerive

\* vec.first_mut() taken for vec.last_mut()
first_mut(v) == IF Len(v) = 0 THEN <<>> ELSE <<v[1]>>

\* vec.last_mut()
last_mut(v) == IF Len(v) = 0 THEN <<>> ELSE <<v[Len(v)]>>

\* the vector after try_from_row_joined(vec.last_mut(), ..) returned r
written(v, r) == IF Len(v) = 0 THEN v ELSE [v EXCEPT ![Len(v)] = r.last[1]]

\* The slice goes on with one more row, or ends here.
More(rs) ==
    {rs} \cup (IF Len(rs) < MaxRows
               THEN {Append(rs, row) : row \in Rows(columns)} ELSE {})

\* FromRow::from_slice up to the loop: an empty slice returns at once, any
\* other asserts the first row's columns.
from_slice ==
    /\ pc = "idle"
    /\ entry' = "from_slice"
    /\ \/ /\ rows' = <<>>
          /\ pc' = "done"
          /\ outcome' = Returned
          /\ UNCHANGED asserted
       \/ \E first \in Rows(columns) :
            /\ rows' = <<first>>
            /\ asserted' = asserted + 1
            /\ IF assert_matches(ty, first.columns)
               THEN pc' = "loop" /\ UNCHANGED outcome
               ELSE pc' = "done" /\ outcome' = Panicked(Mismatch)
    /\ UNCHANGED <<ty, columns, taken, vec>>
    /\ UNCHANGED others

\* one iteration of from_slice's loop
from_slice_iter ==
    /\ pc = "loop" /\ entry = "from_slice"
    /\ taken < Len(rows)
    /\ LET r == try_from_row_joined(ty, last_mut(vec), rows[taken + 1], 0) IN
       /\ taken' = taken + 1
       /\ CASE r.tag = "Some" ->
                 /\ vec' = Append(written(vec, r), r.val)
                 /\ rows' \in More(rows)
                 /\ UNCHANGED <<pc, outcome>>
            [] r.tag = "None" ->
                 /\ vec' = written(vec, r)
                 /\ rows' \in More(rows)
                 /\ UNCHANGED <<pc, outcome>>
            [] r.tag = "Err" ->
                 /\ vec' = written(vec, r)
                 /\ pc' = "done" /\ outcome' = Panicked(CouldNotConvert)
                 /\ UNCHANGED rows
            [] r.tag = "Panic" ->
                 /\ vec' = written(vec, r)
                 /\ pc' = "done" /\ outcome' = Panicked(r.err)
                 /\ UNCHANGED rows
    /\ UNCHANGED <<ty, columns, entry, asserted>>
    /\ UNCHANGED others

\* the slice is exhausted: from_slice returns vec
from_slice_return ==
    /\ pc = "loop" /\ entry = "from_slice"
    /\ taken = Len(rows)
    /\ pc' = "done"
    /\ outcome' = Returned
    /\ UNCHANGED <<ty, columns, entry, rows, taken, vec, asserted>>
    /\ UNCHANGED others

\* try_from_slice asserting before it looks at the slice
try_from_slice_asserts_first ==
    /\ pc = "idle"
    /\ entry' = "try_from_slice"
    /\ asserted' = asserted + 1
    /\ \/ /\ rows' = <<>>
          /\ IF assert_matches(ty, columns)
             THEN pc' = "done" /\ outcome' = Returned
             ELSE pc' = "done" /\ outcome' = Panicked(Mismatch)
       \/ \E first \in Rows(columns) :
            /\ rows' = <<first>>
            /\ IF assert_matches(ty, first.columns)
               THEN pc' = "loop" /\ UNCHANGED outcome
               ELSE pc' = "done" /\ outcome' = Panicked(Mismatch)
    /\ UNCHANGED <<ty, columns, taken, vec>>
    /\ UNCHANGED others

\* FromRow::try_from_slice up to the loop
try_from_slice ==
    /\ pc = "idle"
    /\ entry' = "try_from_slice"
    /\ \/ /\ rows' = <<>>
          /\ pc' = "done"
          /\ outcome' = Returned
          /\ UNCHANGED asserted
       \/ \E first \in Rows(columns) :
            /\ rows' = <<first>>
            /\ asserted' = asserted + 1
            /\ IF assert_matches(ty, first.columns)
               THEN pc' = "loop" /\ UNCHANGED outcome
               ELSE pc' = "done" /\ outcome' = Panicked(Mismatch)
    /\ UNCHANGED <<ty, columns, taken, vec>>
    /\ UNCHANGED others

\* a loop that takes a row it cannot bind for a row without a record
try_from_slice_iter_skips_errors ==
    /\ pc = "loop" /\ entry = "try_from_slice"
    /\ taken < Len(rows)
    /\ LET r == try_from_row_joined(ty, last_mut(vec), rows[taken + 1], 0) IN
       /\ taken' = taken + 1
       /\ CASE r.tag = "Some" ->
                 /\ vec' = Append(written(vec, r), r.val)
                 /\ rows' \in More(rows)
                 /\ UNCHANGED <<pc, outcome>>
            [] r.tag \in {"None", "Err"} ->
                 /\ vec' = written(vec, r)
                 /\ rows' \in More(rows)
                 /\ UNCHANGED <<pc, outcome>>
            [] r.tag = "Panic" ->
                 /\ vec' = written(vec, r)
                 /\ pc' = "done" /\ outcome' = Panicked(r.err)
                 /\ UNCHANGED rows
    /\ UNCHANGED <<ty, columns, entry, asserted>>
    /\ UNCHANGED others

\* one iteration of try_from_slice's loop
try_from_slice_iter ==
    /\ pc = "loop" /\ entry = "try_from_slice"
    /\ taken < Len(rows)
    /\ LET r == try_from_row_joined(ty, last_mut(vec), rows[taken + 1], 0) IN
       /\ taken' = taken + 1
       /\ CASE r.tag = "Some" ->
                 /\ vec' = Append(written(vec, r), r.val)
                 /\ rows' \in More(rows)
                 /\ UNCHANGED <<pc, outcome>>
            [] r.tag = "None" ->
                 /\ vec' = written(vec, r)
                 /\ rows' \in More(rows)
                 /\ UNCHANGED <<pc, outcome>>
            [] r.tag = "Err" ->
                 /\ vec' = written(vec, r)
                 /\ pc' = "done" /\ outcome' = Failed(r.err)
                 /\ UNCHANGED rows
            [] r.tag = "Panic" ->
                 /\ vec' = written(vec, r)
                 /\ pc' = "done" /\ outcome' = Panicked(r.err)
                 /\ UNCHANGED rows
    /\ UNCHANGED <<ty, columns, entry, asserted>>
    /\ UNCHANGED others

\* the slice is exhausted: try_from_slice returns Ok(vec)
try_from_slice_return ==
    /\ pc = "loop" /\ entry = "try_from_slice"
    /\ taken = Len(rows)
    /\ pc' = "done"
    /\ outcome' = Returned
    /\ UNCHANGED <<ty, columns, entry, rows, taken, vec, asserted>>
    /\ UNCHANGED others

\* FromRow::try_from_row on one row; the record is left in vec
try_from_row ==
    /\ pc = "idle"
    /\ entry' = "try_from_row"
    /\ pc' = "done"
    /\ taken' = 1
    /\ asserted' = asserted + 1
    /\ \E row \in Rows(columns) :
         /\ rows' = <<row>>
         /\ IF ~assert_matches(ty, row.columns)
            THEN outcome' = Panicked(Mismatch) /\ UNCHANGED vec
            ELSE LET r == try_from_row_joined(ty, <<>>, row, 0) IN
                 CASE r.tag = "Some" -> vec' = <<r.val>> /\ outcome' = Returned
                   [] r.tag = "None" ->
                        outcome' = Panicked(NeverNone) /\ UNCHANGED vec
                   [] r.tag = "Err" ->
                        outcome' = Failed(r.err) /\ UNCHANGED vec
                   [] r.tag = "Panic" ->
                        outcome' = Panicked(r.err) /\ UNCHANGED vec
    /\ UNCHANGED <<ty, columns>>
    /\ UNCHANGED others

\* FromRow::from_row on one row: it asserts the columns, then calls
\* try_from_row, which asserts them again
from_row ==
    /\ pc = "idle"
    /\ entry' = "from_row"
    /\ pc' = "done"
    /\ taken' = 1
    /\ \E row \in Rows(columns) :
         /\ rows' = <<row>>
         /\ asserted' = asserted + (IF assert_matches(ty, row.columns) THEN 2 ELSE 1)
         /\ IF ~assert_matches(ty, row.columns)
            THEN outcome' = Panicked(Mismatch) /\ UNCHANGED vec
            ELSE LET r == try_from_row_joined(ty, <<>>, row, 0) IN
                 CASE r.tag = "Some" -> vec' = <<r.val>> /\ outcome' = Returned
                   [] r.tag = "None" ->
                        outcome' = Panicked(NeverNone) /\ UNCHANGED vec
                   [] r.tag = "Err" ->
                        outcome' = Panicked(CouldNotConvert) /\ UNCHANGED vec
                   [] r.tag = "Panic" ->
                        outcome' = Panicked(r.err) /\ UNCHANGED vec
    /\ UNCHANGED <<ty, columns>>
    /\ UNCHANGED others

Next ==
    \/ from_row
    \/ try_from_row
    \/ from_slice
    \/ from_slice_iter
    \/ from_slice_return
    \/ try_from_slice
    \/ try_from_slice_iter
    \/ try_from_slice_return

Spec == Init /\ [][Next]_vars

\* =================================================================
\* Properties of the entry points
\* =================================================================
SliceEntries == {"from_slice", "try_from_slice"}

\* a batch call that returned its vector
SliceReturned == pc = "done" /\ entry \in SliceEntries /\ outcome = Returned

\* records {k, children: Vec<c>} with k the only field that is not join
KeyedTypes == {Parent, ParentT}

AllValues(rs) ==
    \A i \in 1..Len(rs) : \A j \in 1..Len(rs[i].cells) : rs[i].cells[j].tag = "val"

Key(row) == row.cells[1].v
ChildOf(row) == <<row.cells[2].v>>

\* the rows that open a maximal run of adjacent rows with equal k
RunStarts(rs) == {i \in 1..Len(rs) : i = 1 \/ Key(rs[i]) # Key(rs[i - 1])}

NthStart(rs, j) ==
    CHOOSE i \in RunStarts(rs) : Cardinality({s \in RunStarts(rs) : s <= i}) = j

RunEnd(rs, i) ==
    CHOOSE e \in i..Len(rs) :
        /\ e = Len(rs) \/ (e + 1) \in RunStarts(rs)
        /\ \A m \in (i + 1)..e : m \notin RunStarts(rs)

\* one record per maximal run, holding the run's children in row order
Groups(rs) ==
    [j \in 1..Cardinality(RunStarts(rs)) |->
        LET s == NthStart(rs, j)
            e == RunEnd(rs, s)
        IN  <<Key(rs[s]), [m \in 1..(e - s + 1) |-> ChildOf(rs[s + m - 1])]>>]

\* C1: for a record {k, children: Vec<c>} whose only non-join field is k,
\* from_slice / try_from_slice over rows whose cells all hold values return
\* exactly one record per maximal run of adjacent rows with equal k, in row
\* order, each holding its run's c values in row order.
C1_JoinGrouping ==
    (SliceReturned /\ ty \in KeyedTypes /\ AllValues(rows)) => vec = Groups(rows)

\* rows (1,a),(1,b),(2,c) came back as two records, the first with two children
C1_Witness ==
    /\ SliceReturned /\ ty = Parent /\ AllValues(rows)
    /\ Len(rows) = 3
    /\ Key(rows[1]) = Key(rows[2]) /\ Key(rows[2]) # Key(rows[3])
    /\ Len(vec) = 2 /\ Len(vec[1][2]) = 2 /\ Len(vec[2][2]) = 1

\* the keys of the rows, in row order
Keys(rs) == [i \in 1..Len(rs) |-> Key(rs[i])]

\* C2: grouping is adjacency-based and single-pass: a step of the loop
\* leaves every record before the last as it is and appends at most one
\* record, so a row is merged into the last record or into none; rows with
\* keys 1, 2, 1 come back as three records, the third holding the third
\* row's child alone.
C2_AdjacencySinglePass ==
    /\ [][/\ Len(vec') >= Len(vec)
          /\ Len(vec') <= Len(vec) + 1
          /\ \A j \in 1..(Len(vec) - 1) : vec'[j] = vec[j]]_vars
    /\ []((SliceReturned /\ ty \in KeyedTypes /\ AllValues(rows)
           /\ Keys(rows) = <<1, 2, 1>>)
          => (/\ Len(vec) = 3
              /\ \A j \in 1..3 : vec[j] = <<Key(rows[j]), <<ChildOf(rows[j])>>>>))

\* rows with keys 1, 2, 1 were bound by the batch loop and it returned
C2_Witness ==
    /\ SliceReturned /\ ty \in KeyedTypes /\ AllValues(rows)
    /\ Keys(rows) = <<1, 2, 1>>
    /\ Len(vec) = 3

\* the columns do not match what ty expects
Mismatched == ~try_assert_matches(ty, columns)

\* C3 as stated: try_from_row and try_from_slice return a schema mismatch
\* as an error value and never abort with the mismatch report.
C3_TryReturnsMismatch ==
    (pc = "done" /\ entry \in {"try_from_row", "try_from_slice"}
     /\ Len(rows) > 0 /\ Mismatched)
    => (outcome.tag = "Err" /\ outcome # Panicked(Mismatch))

\* C6: from_slice and try_from_slice on an empty slice return an empty
\* vector and assert_matches never runs.
C6_EmptySlice ==
    (pc = "done" /\ entry \in SliceEntries /\ rows = <<>>)
    => (outcome = Returned /\ vec = <<>> /\ asserted = 0)

\* try_from_slice returned from an empty slice whose columns would not match
C6_Witness ==
    /\ pc = "done" /\ entry = "try_from_slice" /\ rows = <<>>
    /\ Mismatched
    /\ outcome = Returned

\* some try_get call made while binding row to T with this `last` fails
\* with an error that is not was-null
Raised(T, last, row) ==
    LET calls == try_get_calls(T, last, row, 0) IN
    \E n \in 1..Len(calls) :
        LET r == try_get(row, calls[n].idx, calls[n].sty) IN
        r.tag = "Err" /\ ~is_was_null(r.err)

\* C11: when a try_get made while try_from_slice binds a row fails with an
\* error that is not was-null, the call ends at that row with that error
\* as its result (no vector, no adapter absorbs it), and once the call has
\* ended no further row is bound.
C11_DecodeErrorReturned ==
    [][/\ (pc = "loop" /\ entry = "try_from_slice" /\ taken < Len(rows)
           /\ Raised(ty, last_mut(vec), rows[taken + 1]))
          => (/\ pc' = "done"
              /\ outcome' = Failed("Other")
              /\ taken' = taken + 1
              /\ rows' = rows)
       /\ pc # "done"]_vars

\* the second row of a batch of {k, children: Vec<c>} repeats the key and
\* holds an undecodable child: try_from_slice returned the error
C11_Witness ==
    /\ pc = "done" /\ entry = "try_from_slice" /\ ty = Parent
    /\ taken = 2 /\ Len(rows) = 2
    /\ rows[1].cells = <<Val(1), Val(1)>>
    /\ rows[2].cells = <<Val(1), Bad>>
    /\ outcome = Failed("Other")

\* =================================================================
\* Direct calls of try_from_row_joined
\* =================================================================
\* A type whose derived structs all passed DeriveFromRow::validate.
RECURSIVE Derivable(_)
Derivable(T) ==
    CASE T.kind = "unit" -> TRUE
      [] T.kind = "tuple" -> TRUE
      [] T.kind = "option" -> Derivable(T.of)
      [] T.kind = "vec" -> Derivable(T.of)
      [] T.kind = "struct" ->
           /\ validate(T.fields)
           /\ \A j \in 1..Len(T.fields) :
                (T.fields[j].flatten \/ T.fields[j].join) => Derivable(T.fields[j].ty)

\* a struct the derive macro refuses: its join field is not the last
JoinFirst == StructT(<<Join("children", VecT(Child)), Scalar("k", Int4)>>)

\* a flatten field whose type ends in a Vec
FlatVec == StructT(<<Flatten("items", VecT(One))>>)

\* flatten fields of no column and of two nullable columns before a scalar
UnitFirst == StructT(<<Flatten("u", UnitT), Scalar("k", Int4)>>)
OptFirst == StructT(<<Flatten("pair", OptionT(Pair)), Scalar("k", Int4)>>)

\* a flattened record that ends in a join Vec
FlatParent == StructT(<<Flatten("parent", ParentT)>>)

\* join inside join: {k, children: Vec<{m, grandchildren: Vec<(i32,)>}>}
Mid == StructT(<<Scalar("m", Int4), Join("grandchildren", VecT(One))>>)
Grand == StructT(<<Scalar("k", Int4), Join("children", VecT(Mid))>>)

JoinedTypes ==
    {T \in BindTypes \cup {JoinFirst, FlatVec, VecT(One), VecT(OptionT(Child)),
                           OptionT(VecT(One)), OptionT(Parent), VecT(ParentT),
                           UnitFirst, OptFirst, FlatParent, Grand} :
        Derivable(T)}

\* the cursor values a direct call is made with
Indexes == {0, 1}

\* index columns that belong to the caller, then the columns of ty
Prefixed(cols, index) == [j \in 1..index |-> Column("x", "int4")] \o cols

\* The rows of a direct call: the caller's own columns hold values, the
\* columns of ty hold any cell.
JoinedRows(cols, index) ==
    {[columns |-> cols, cells |-> [j \in 1..index |-> Val(1)] \o c] :
        c \in [1..(Len(cols) - index) -> Cells]}

\* The caller holds at most one Self (in vec) and offers it, or nothing, as
\* `last`; the call works on the value offered.
call_try_from_row_joined ==
    /\ pc = "joined"
    /\ taken < MaxCalls
    /\ LET index == Len(columns) - COLUMN_COUNT(ty) IN
       \E row \in JoinedRows(columns, index), offer \in BOOLEAN :
         LET last == IF offer THEN vec ELSE <<>>
             r == try_from_row_joined(ty, last, row, index)
         IN  /\ call' = [made |-> TRUE, last |-> last, row |-> row,
                         index |-> index, res |-> r]
             /\ vec' = IF offer THEN r.last ELSE vec
    /\ pc' = "returned"
    /\ taken' = taken + 1
    /\ UNCHANGED <<ty, columns, entry, rows, outcome, asserted, check, derive>>

\* The caller after the call: a new value replaces the one held, as in
\* `if let Some(this) = .. { vec.push(this) }`, and the call is over.
caller_keeps_new_value ==
    /\ pc = "returned"
    /\ vec' = IF call.res.tag = "Some" THEN <<call.res.val>> ELSE vec
    /\ call' = NoCall
    /\ pc' = "joined"
    /\ UNCHANGED <<ty, columns, entry, rows, taken, outcome, asserted, check, derive>>

\* Values a caller may hold before its first call: `last` is any
\* Option<&mut Self>, here a collection that already has two elements.
HeldValues(T) ==
    CASE T = VecT(One) -> {<< <<1>>, <<2>> >>}
      [] T = ParentT -> {<<1, << <<1>>, <<2>> >>>>}
      [] T = Grand -> {<<1, << <<1, << <<1>>, <<2>> >>>>,
                              <<2, << <<2>>, <<1>> >>>> >>>>}
      [] OTHER -> {}

InitJoined ==
    /\ ty \in JoinedTypes
    /\ \E index \in Indexes : columns = Prefixed(GoodColumns(ty), index)
    /\ entry = "try_from_row_joined"
    /\ pc = "joined"
    /\ rows = <<>>
    /\ taken = 0
    /\ vec \in {<<>>} \cup {<<v>> : v \in HeldValues(ty)}
    /\ outcome = Running
    /\ asserted = 0
    /\ call = NoCall
    /\ check = NoCheck
    /\ derive = NoDerive

NextJoined ==
    \/ call_try_from_row_joined
    \/ caller_keeps_new_value

SpecJoined == InitJoined /\ [][NextJoined]_vars

\* what Option<T> hands to T as `last`
InnerLast(last) == IF last # <<>> /\ last[1] # <<>> THEN <<last[1][1]>> ELSE <<>>

\* T's own answer on the arguments of the latest call on Option<T>
InnerRes == try_from_row_joined(ty.of, InnerLast(call.last), call.row, call.index)

\* C7: binding Option<T>: a was-null error of T becomes a successful bind
\* of None, a value v of T becomes Some(v), and any other error of T is
\* returned as it is, never turned into None.
C7_OptionalAbsorption ==
    (call.made /\ ty.kind = "option") =>
        /\ (InnerRes.tag = "Err" /\ is_was_null(InnerRes.err))
             => (call.res.tag = "Some" /\ call.res.val = <<>>)
        /\ InnerRes.tag = "Some"
             => (call.res.tag = "Some" /\ call.res.val = <<InnerRes.val>>)
        /\ (InnerRes.tag = "Err" /\ ~is_was_null(InnerRes.err))
             => (call.res.tag = "Err" /\ call.res.err = InnerRes.err)

\* Option<Child> was bound on a row whose cell is NULL and came back None
C7_Witness ==
    /\ call.made /\ ty = OptionT(Child)
    /\ call.row.cells[call.index + 1] = Null
    /\ InnerRes.tag = "Err" /\ is_was_null(InnerRes.err)
    /\ call.res.tag = "Some" /\ call.res.val = <<>>

\* C10: called with last = None, try_from_row_joined never returns
\* Ok(None), so no "should never return None" expect fires, at the top or
\* in a flatten field, a fresh join field or Vec's first-row path.
C10_NeverNoneWithoutLast ==
    call.made =>
        /\ call.last = <<>> => call.res.tag # "None"
        /\ call.res.tag # "Panic"

\* a record with a join field was bound with last = None on a row whose
\* child cell is NULL, through Vec's first-row path
C10_Witness ==
    /\ call.made /\ ty = Parent /\ call.last = <<>>
    /\ call.row.cells[call.index + 2] = Null
    /\ call.res.tag = "Some" /\ call.res.val[2] = <<>>

\* what Vec<T> hands to T as `last`: the last element, if there is one
ItemLast(last) ==
    IF last = <<>> \/ Len(last[1]) = 0 THEN <<>> ELSE <<last[1][Len(last[1])]>>

\* T's own answer on the arguments of the latest call on Vec<T>
ItemRes == try_from_row_joined(ty.of, ItemLast(call.last), call.row, call.index)

\* C12: Vec<T> bound with last = None returns a new Vec: the one-element
\* Vec of T's value when T binds, the empty Vec when T fails with
\* was-null, and T's error when T fails with any other error.
C12_VecFirstRow ==
    (call.made /\ ty.kind = "vec" /\ call.last = <<>>) =>
        /\ ItemRes.tag = "Some" => call.res = OkSome(<<ItemRes.val>>, <<>>)
        /\ (ItemRes.tag = "Err" /\ is_was_null(ItemRes.err))
             => call.res = OkSome(<<>>, <<>>)
        /\ (ItemRes.tag = "Err" /\ ~is_was_null(ItemRes.err))
             => call.res = Err(ItemRes.err, <<>>)

\* Vec<Child> was bound with last = None on a row whose cell is NULL and
\* came back as the empty Vec
C12_Witness ==
    /\ call.made /\ ty = VecT(Child) /\ call.last = <<>>
    /\ call.row.cells[call.index + 1] = Null
    /\ ItemRes.tag = "Err" /\ is_was_null(ItemRes.err)
    /\ call.res = OkSome(<<>>, <<>>)

\* C13: Vec<T> bound with last = Some(vec) never returns Some: it binds T
\* against vec's last element (against None when vec is empty); a new T is
\* pushed as the last element, Ok(None) and was-null leave the length as
\* it is, and the Vec grows by at most one element.
C13_VecLaterRow ==
    (call.made /\ ty.kind = "vec" /\ call.last # <<>>) =>
        LET n == Len(call.last[1])
            after == call.res.last[1]
        IN  /\ call.res.tag # "Some"
            /\ call.res.tag = "Err" <=> (ItemRes.tag = "Err" /\ ~is_was_null(ItemRes.err))
            /\ ItemRes.tag = "Some"
                 => (/\ call.res.tag = "None"
                     /\ Len(after) = n + 1
                     /\ after[n + 1] = ItemRes.val)
            /\ (ItemRes.tag = "None" \/ (ItemRes.tag = "Err" /\ is_was_null(ItemRes.err)))
                 => (call.res.tag = "None" /\ Len(after) = n)
            /\ Len(after) \in {n, n + 1}

\* Vec<(i32,)> holding one element was bound on a row with a value: the
\* call returned None and the Vec holds two elements
C13_Witness ==
    /\ call.made /\ ty = VecT(One) /\ call.last # <<>>
    /\ Len(call.last[1]) = 1
    /\ ItemRes.tag = "Some"
    /\ call.res.tag = "None" /\ Len(call.res.last[1]) = 2
    /\ vec = call.res.last

\* Vec<{k, children}> was bound on a row that its last element took in
C13_WitnessMerged ==
    /\ call.made /\ ty = VecT(ParentT) /\ call.last # <<>>
    /\ ItemRes.tag = "None"
    /\ call.res.tag = "None" /\ Len(call.res.last[1]) = 1

\* the try_get calls of the latest call
Calls == try_get_calls(ty, call.last, call.row, call.index)

\* the columns of the fields before field j: 1 for a scalar field, the
\* nested COLUMN_COUNT for a flatten or join field
RECURSIVE ColumnsBefore(_, _)
ColumnsBefore(fields, j) ==
    IF j <= 1 THEN 0
    ELSE ColumnsBefore(fields, j - 1)
         + (IF fields[j - 1].flatten \/ fields[j - 1].join
            THEN COLUMN_COUNT(fields[j - 1].ty) ELSE 1)

\* the calls made at the positions lo..hi
Segment(calls, lo, hi) ==
    LET Within(c) == c.idx >= lo /\ c.idx <= hi IN SelectSeq(calls, Within)

\* C14: a bind at cursor i reads only positions i..i+COLUMN_COUNT-1, in
\* strictly increasing order, each for the column declared at that place;
\* field j of a record (element j of a tuple) is read at i plus the
\* columns of the fields before it: a scalar field holds the cell at that
\* position, a flatten or join field what its type binds from there.
C14_CursorInOrder ==
    call.made =>
        LET calls == Calls
            i == call.index
            row == call.row
            expected == report_expected_columns(ty)
        IN  /\ \A a \in 1..Len(calls) :
                  /\ calls[a].idx \in i..(i + COLUMN_COUNT(ty) - 1)
                  /\ calls[a].sty = expected[calls[a].idx - i + 1].sty
                  /\ \A b \in (a + 1)..Len(calls) : calls[a].idx < calls[b].idx
            /\ (ty.kind = "struct" /\ call.last = <<>> /\ call.res.tag = "Some") =>
                  \A j \in 1..Len(ty.fields) :
                     LET f == ty.fields[j]
                         p == i + ColumnsBefore(ty.fields, j)
                     IN  IF f.flatten \/ f.join
                         THEN /\ try_from_row_joined(f.ty, <<>>, row, p)
                                   = OkSome(call.res.val[j], <<>>)
                              /\ Segment(calls, p, p + COLUMN_COUNT(f.ty) - 1)
                                   = try_get_calls(f.ty, <<>>, row, p)
                         ELSE /\ try_get(row, p, f.ty).tag = "Some"
                              /\ try_get(row, p, f.ty).val = call.res.val[j]
                              /\ Segment(calls, p, p) = <<TryGet(p, f.ty)>>
            /\ (ty.kind = "tuple" /\ call.res.tag = "Some") =>
                  \A j \in 1..Len(ty.elems) :
                     /\ try_get(row, i + j - 1, ty.elems[j]).tag = "Some"
                     /\ try_get(row, i + j - 1, ty.elems[j]).val = call.res.val[j]
                     /\ calls[j] = TryGet(i + j - 1, ty.elems[j])

\* {pair: flatten Option<(i32, i32)>, k} was bound on a row whose first
\* cell is NULL: positions 0 and 2 were read and k holds the third cell
C14_Witness ==
    /\ call.made /\ ty = OptFirst /\ call.last = <<>> /\ call.index = 0
    /\ call.row.cells = <<Null, Val(1), Val(2)>>
    /\ call.res = OkSome(<< <<>>, 2 >>, <<>>)
    /\ Calls = <<TryGet(0, Int4), TryGet(2, Int4)>>

\* C15: a flatten field is bound with last = None: in every record a call
\* returns, the field holds what its type binds from the row alone, a
\* Vec inside it is the fresh one of this row, and a record without a
\* join field of its own never answers "no new value" and leaves the
\* previous record as it was.
C15_FlattenNeverMerges ==
    (call.made /\ ty.kind = "struct") =>
        /\ call.res.tag = "Some" =>
              \A j \in 1..Len(ty.fields) :
                 ty.fields[j].flatten =>
                    try_from_row_joined(ty.fields[j].ty, <<>>, call.row,
                                        call.index + ColumnsBefore(ty.fields, j))
                      = OkSome(call.res.val[j], <<>>)
        /\ (\A j \in 1..Len(ty.fields) : ~ty.fields[j].join) =>
              (call.res.tag # "None" /\ call.res.last = call.last)

\* {parent: flatten {k, children: join Vec}} was bound on a row that
\* repeats the key of the previous record (k = 1, one child): a new record
\* came back whose Vec holds this row's child alone
C15_Witness ==
    /\ call.made /\ ty = FlatParent
    /\ call.last = << << <<1, << <<1>> >> >> >> >>
    /\ call.row.cells = <<Val(1), Val(2)>>
    /\ call.res = OkSome(<< <<1, << <<2>> >> >> >>, call.last)

\* the latest call bound a row of values k, m, g of {k, children: Vec<Mid>}
\* against a previous record that holds at least one Mid
GrandCall ==
    /\ call.made /\ ty = Grand /\ call.last # <<>>
    /\ \A j \in 1..3 : call.row.cells[call.index + j].tag = "val"
    /\ Len(call.last[1][2]) > 0

\* C16: for {k, children: Vec<Mid>} with Mid = {m, grandchildren: Vec<g>}
\* and a row of values bound against the last outer record: equal k and
\* equal m (to the last Mid's) push g onto that Mid's grandchildren and
\* add no Mid and no outer record; equal k and another m push one new Mid
\* holding g alone and add no outer record; another k gives a new outer
\* record and leaves the last one as it was.
C16_NestedJoin ==
    GrandCall =>
        LET k == call.row.cells[call.index + 1].v
            m == call.row.cells[call.index + 2].v
            g == <<call.row.cells[call.index + 3].v>>
            outer == call.last[1]
            mids == outer[2]
            n == Len(mids)
        IN  CASE k = outer[1] /\ m = mids[n][1] ->
                   call.res = OkNone(<< <<k, [mids EXCEPT ![n] =
                                               <<m, Append(mids[n][2], g)>>]>> >>)
              [] k = outer[1] /\ m # mids[n][1] ->
                   call.res = OkNone(<< <<k, Append(mids, <<m, <<g>>>>)>> >>)
              [] k # outer[1] ->
                   call.res = OkSome(<<k, << <<m, <<g>>>> >> >>, call.last)

\* a row with the k and the m of the previous row was taken in by the
\* last Mid, which holds two grandchildren
C16_Witness ==
    /\ GrandCall
    /\ call.last = << <<1, << <<2, << <<1>> >> >> >> >> >>
    /\ call.row.cells[call.index + 1] = Val(1)
    /\ call.row.cells[call.index + 2] = Val(2)
    /\ call.row.cells[call.index + 3] = Val(2)
    /\ call.res.tag = "None"
    /\ vec = << <<1, << <<2, << <<1>>, <<2>> >> >> >> >> >>

\* a row with the k of the previous row and another m added one Mid
C16_WitnessNewMid ==
    /\ GrandCall
    /\ call.last = << <<1, << <<2, << <<1>> >> >> >> >> >>
    /\ call.row.cells[call.index + 1] = Val(1)
    /\ call.row.cells[call.index + 2] = Val(1)
    /\ call.res.tag = "None"
    /\ Len(vec[1][2]) = 2

\* How many elements `new` holds more than `old`, when `new` is `old` with
\* pushes along its chain of last elements (the join Vec of a record, the
\* last element of that Vec, its join Vec, ..) and nothing else differs;
\* 2 when it is not.
RECURSIVE Pushes(_, _, _)
Pushes(T, old, new) ==
    IF new = old THEN 0
    ELSE CASE T.kind = "vec" ->
                LET n == Len(old) IN
                IF Len(new) = n + 1 /\ SubSeq(new, 1, n) = old THEN 1
                ELSE IF Len(new) = n /\ n > 0
                        /\ SubSeq(new, 1, n - 1) = SubSeq(old, 1, n - 1)
                     THEN Pushes(T.of, old[n], new[n])
                     ELSE 2
           [] T.kind = "option" ->
                IF old # <<>> /\ new # <<>> THEN Pushes(T.of, old[1], new[1])
                ELSE 2
           [] T.kind = "struct" ->
                LET n == Len(T.fields) IN
                IF n > 0 /\ T.fields[n].join
                   /\ SubSeq(new, 1, n - 1) = SubSeq(old, 1, n - 1)
                THEN Pushes(T.fields[n].ty, old[n], new[n])
                ELSE 2
           [] OTHER -> 2

\* C17: a call with last = Some(parent) that returns an error or a new
\* value leaves the parent as it was; one that returns Ok(None) leaves
\* the parent's fields that are not join and every element that is not on
\* the chain of last elements as they were, and has pushed at most one
\* element, onto one Vec of that chain.
C17_ParentFrame ==
    (call.made /\ call.last # <<>>) =>
        /\ call.res.tag \in {"Err", "Some"} => call.res.last = call.last
        /\ call.res.tag = "None"
             => Pushes(ty, call.last[1], call.res.last[1]) \in {0, 1}

\* a record with two Mids of two grandchildren each took in a row with
\* its k and its last Mid's m: the last Mid holds a third grandchild and
\* everything else is as it was
C17_Witness ==
    /\ call.made /\ ty = Grand
    /\ call.last \in {<<v>> : v \in HeldValues(Grand)}
    /\ call.row.cells[call.index + 1] = Val(1)
    /\ call.row.cells[call.index + 2] = Val(2)
    /\ call.row.cells[call.index + 3] = Val(2)
    /\ call.res.tag = "None"
    /\ call.res.last[1][2][1] = call.last[1][2][1]
    /\ call.res.last[1][2][2][2] = << <<2>>, <<1>>, <<2>> >>

\* a row with an undecodable child was bound against a record whose key
\* it repeats: the error came back and the record is as it was
C17_WitnessErr ==
    /\ call.made /\ ty = ParentT /\ call.last # <<>>
    /\ call.row.cells[call.index + 1] = Val(call.last[1][1])
    /\ call.row.cells[call.index + 2] = Bad
    /\ call.res = Err("Other", call.last)

\* =================================================================
\* The schema functions: COLUMN_COUNT, report_expected_columns,
\* try_assert_matches
\* =================================================================
Renamed ==
    StructT(<<FromRowField("id", FALSE, FALSE, <<"k">>, {}, Int4),
              Scalar("c", Text)>>)
Wide == StructT(<<Scalar("k", Int4), Flatten("pair", Pair), Flatten("u", UnitT)>>)
Nested == StructT(<<Scalar("k", Text), Flatten("parent", ParentT)>>)

MatchTypes ==
    {T \in BindTypes \cup {JoinFirst, Renamed, Wide, Nested, FlatVec, VecT(UnitT),
                           OptionT(VecT(UnitT)), VecT(Pair), OptionT(Parent)} :
        Derivable(T)}

ColumnNames == {"k", "c", "x"}
WireTypes == {"int4", "text"}

\* every column list of at most MaxCols columns
ColumnLists ==
    UNION {[1..n -> {Column(nm, w) : nm \in ColumnNames, w \in WireTypes}] :
              n \in 0..MaxCols}

\* Self::COLUMN_COUNT is read
read_COLUMN_COUNT ==
    /\ pc = "schema"
    /\ check.count = <<>>
    /\ check' = [check EXCEPT !.count = <<COLUMN_COUNT(ty)>>]
    /\ UNCHANGED <<ty, columns, entry, pc, rows, taken, vec, outcome, asserted,
                   call, derive>>

\* Self::report_expected_columns() is called
call_report_expected_columns ==
    /\ pc = "schema"
    /\ check.expected = <<>>
    /\ check' = [check EXCEPT !.expected = <<report_expected_columns(ty)>>]
    /\ UNCHANGED <<ty, columns, entry, pc, rows, taken, vec, outcome, asserted,
                   call, derive>>

\* Self::try_assert_matches(columns) is called on some column list
call_try_assert_matches ==
    /\ pc = "schema"
    /\ check.verdict = <<>>
    /\ \E cols \in ColumnLists :
         /\ columns' = cols
         /\ check' = [check EXCEPT !.verdict = <<try_assert_matches(ty, cols)>>]
    /\ UNCHANGED <<ty, entry, pc, rows, taken, vec, outcome, asserted, call, derive>>

InitSchema ==
    /\ ty \in MatchTypes
    /\ columns = <<>>
    /\ entry = "none"
    /\ pc = "schema"
    /\ rows = <<>>
    /\ taken = 0
    /\ vec = <<>>
    /\ outcome = Running
    /\ asserted = 0
    /\ call = NoCall
    /\ check = NoCheck
    /\ derive = NoDerive

NextSchema ==
    \/ read_COLUMN_COUNT
    \/ call_report_expected_columns
    \/ call_try_assert_matches

SpecSchema == InitSchema /\ [][NextSchema]_vars

\* the physical column matches the expected one: its name when a name is
\* expected, and its wire type
Aligned(expected, column) ==
    /\ expected.column_name # <<>> => column.name = expected.column_name[1]
    /\ accepts(expected.sty, column.type)

\* C4: for a derived record, try_assert_matches passes iff the list has
\* exactly COLUMN_COUNT columns and every column, position by position,
\* carries the expected name (when one is expected) and a wire type the
\* expectation accepts, the expectations being report_expected_columns(),
\* flatten and join fields included.
C4_ValidatorSoundness ==
    (ty.kind = "struct" /\ check.verdict # <<>> /\ check.expected # <<>>
     /\ check.count # <<>>)
    => (check.verdict[1]
        <=> (/\ Len(columns) = check.count[1]
             /\ \A j \in 1..Len(columns) :
                  /\ j <= Len(check.expected[1])
                  /\ Aligned(check.expected[1][j], columns[j])))

\* a record with a flattened tuple and a flattened unit passed on three
\* columns, the tuple's under names of their own
C4_Witness ==
    /\ ty = Wide /\ check.verdict = <<TRUE>> /\ check.expected # <<>>
    /\ check.count = <<3>>
    /\ Len(columns) = 3 /\ columns[1].name = "k" /\ columns[2].name = "c"

\* C5 as stated: for every type, validation fails whenever the number of
\* columns differs from the type's COLUMN_COUNT.
C5_CountMismatchFails ==
    (check.verdict # <<>> /\ Len(columns) # COLUMN_COUNT(ty)) => ~check.verdict[1]

\* the type under the Option and Vec wrappers
RECURSIVE Unwrapped(_)
Unwrapped(T) == IF T.kind \in {"option", "vec"} THEN Unwrapped(T.of) ELSE T

\* C5 amended: for derived records and tuples, and Option and Vec around
\* them, validation fails whenever the number of columns differs from
\* COLUMN_COUNT; the unit type accepts every column list.
C5_CountMismatchFailsButUnit ==
    check.verdict # <<>> =>
        IF Unwrapped(ty).kind = "unit" THEN check.verdict[1]
        ELSE Len(columns) # COLUMN_COUNT(ty) => ~check.verdict[1]

\* Option<(i32, i32)> refused three int4 columns
C5_Witness ==
    /\ ty = OptionT(Pair) /\ Len(columns) = 3
    /\ \A j \in 1..3 : columns[j].type = "int4"
    /\ check.verdict = <<FALSE>>

\* the columns the fields of a record contribute, field by field
RECURSIVE Contributions(_, _)
Contributions(fields, j) ==
    IF j > Len(fields) THEN 0
    ELSE (IF fields[j].flatten \/ fields[j].join
          THEN COLUMN_COUNT(fields[j].ty) ELSE 1)
         + Contributions(fields, j + 1)

\* C8: COLUMN_COUNT of a record is the sum over its fields of 1 for a
\* scalar field and the nested COLUMN_COUNT for a flatten or join field; a
\* record without flatten and join fields counts its fields, a tuple its
\* elements, the unit type 0, and Option<T> and Vec<T> count as T.
C8_ColumnCountAdditive ==
    check.count # <<>> =>
        CASE ty.kind = "struct" ->
               /\ check.count[1] = Contributions(ty.fields, 1)
               /\ (\A j \in 1..Len(ty.fields) :
                      ~ty.fields[j].flatten /\ ~ty.fields[j].join)
                    => check.count[1] = Len(ty.fields)
          [] ty.kind = "tuple" -> check.count[1] = Len(ty.elems)
          [] ty.kind = "unit" -> check.count[1] = 0
          [] ty.kind \in {"option", "vec"} -> check.count[1] = COLUMN_COUNT(ty.of)

\* the record {k, parent: flatten {k, children: join Vec<(i32,)>}} counts
\* three columns
C8_Witness == ty = Nested /\ check.count = <<3>>

\* =================================================================
\* The derive macro's validation
\* =================================================================
\* the attribute combinations a field is written with
FieldChoices ==
    {FromRowField("f", fl, jn, rn, cv, IF fl \/ jn THEN VecT(Child) ELSE Int4) :
        fl \in BOOLEAN, jn \in BOOLEAN, rn \in {<<>>, <<"r">>},
        cv \in {{}, {"from"}, {"try_from_fn"}, {"from", "try_from"}}}

FieldLists == UNION {[1..n -> FieldChoices] : n \in 0..MaxFields}

\* DeriveFromRow::generate: the field list is validated, then the impl is
\* emitted
generate ==
    /\ pc = "derive"
    /\ derive.result = "none"
    /\ derive' = [derive EXCEPT
                    !.result = IF validate(derive.fields) THEN "impl" ELSE "error"]
    /\ UNCHANGED <<ty, columns, entry, pc, rows, taken, vec, outcome, asserted,
                   call, check>>

InitDerive ==
    /\ ty = UnitT
    /\ columns = <<>>
    /\ entry = "none"
    /\ pc = "derive"
    /\ rows = <<>>
    /\ taken = 0
    /\ vec = <<>>
    /\ outcome = Running
    /\ asserted = 0
    /\ call = NoCall
    /\ check = NoCheck
    /\ \E fs \in FieldLists : derive = [fields |-> fs, result |-> "none"]

NextDerive == generate

SpecDerive == InitDerive /\ [][NextDerive]_vars

JoinBeforeLast(fields) == \E j \in 1..(Len(fields) - 1) : fields[j].join

\* C9: the derive fails for every field list with a join field that is not
\* the last, and accepts a list whose only join field is the last when
\* each field's own attributes are valid.
C9_JoinTailOnly ==
    derive.result # "none" =>
        /\ JoinBeforeLast(derive.fields) => derive.result = "error"
        /\ (/\ ~JoinBeforeLast(derive.fields)
            /\ \A j \in 1..Len(derive.fields) : field_validate(derive.fields[j]))
           => derive.result = "impl"

\* two fields, each valid alone, the first one join: refused
C9_Witness ==
    /\ Len(derive.fields) = 2
    /\ derive.fields[1].join /\ ~derive.fields[2].join
    /\ \A j \in 1..2 : field_validate(derive.fields[j])
    /\ derive.result = "error"
====
